---- MODULE Spec2Model ----
(***************************************************************************)
(* Model of ternary/plotting.py: projection of simplex points, boundary    *)
(* and gridline drawing, trajectory plotting, lattice enumeration and the  *)
(* triangular / hexagonal heatmap renderers.                               *)
(*                                                                         *)
(* Every library function is an operator that returns an outcome record    *)
(*   [prims, ret, raised]                                                  *)
(* prims  : the drawing primitives issued, in order, each tagged with the  *)
(*          surface that received it;                                      *)
(* ret    : the value returned, <<>> for None / nothing;                   *)
(* raised : "none" or the name of the exception that propagated.           *)
(*                                                                         *)
(* Planar coordinates are kept exact: the point (x, y) is stored as        *)
(* <<2*x, y / SQRT3OVER2>>, so x = b + c/2. is stored as 2*b + c and       *)
(* y = SQRT3OVER2 * c is stored as c.                                      *)
(*                                                                         *)
(* A colour is the palette position it is looked up at, an exact fraction; *)
(* the palette itself (cmap_name), line styling keywords and the tick      *)
(* format of the legend (scientific) do not change which primitive goes    *)
(* where and are left out.  A call starts from the idle state and ends in  *)
(* a state that records its arguments and its outcome.                     *)
(***************************************************************************)
EXTENDS Integers, Sequences, FiniteSets, TLC

VARIABLES current, call, prims, ret, raised

vars == <<current, call, prims, ret, raised>>

---------------------------------------------------------------------------
(* Bounds of the enumerated inputs *)

MaxSteps == 3
MaxHeatSteps == 2
MaxLen == 2
MaxTraj == 2
MaxCoef == 1

---------------------------------------------------------------------------
(* Surfaces *)

NoAx == "None"
Surfaces == {"ax1", "ax2"}
AxArgs == {NoAx} \cup Surfaces

\* pyplot.subplot(): the library's current surface (created on demand).
Subplot(cur) == cur

\* "if not ax: ax = pyplot.subplot()"
AxOrSubplot(ax, cur) == IF ax = NoAx THEN Subplot(cur) ELSE ax

Outcome(p, r, e) == [prims |-> p, ret |-> r, raised |-> e]

Prim(ax, kind, pts, arg) == [ax |-> ax, kind |-> kind, pts |-> pts, arg |-> arg]

---------------------------------------------------------------------------
(* Helpers *)

\* range(a, b)
Range(a, b) == [k \in 1..(IF b > a THEN b - a ELSE 0) |-> a + k - 1]

RECURSIVE Flatten(_)
Flatten(ss) == IF ss = <<>> THEN <<>> ELSE Head(ss) \o Flatten(Tail(ss))

Map(F(_), s) == [k \in 1..Len(s) |-> F(s[k])]

RECURSIVE MinLen(_)
MinLen(l) ==
    IF Len(l) = 1 THEN Len(l[1])
    ELSE LET m == MinLen(Tail(l)) IN IF Len(l[1]) < m THEN Len(l[1]) ELSE m

\* unzip(l) = zip(*l): no argument gives no tuple at all.
Unzip(l) ==
    IF l = <<>> THEN <<>>
    ELSE [k \in 1..MinLen(l) |-> [n \in 1..Len(l) |-> l[n][k]]]

---------------------------------------------------------------------------
(* Ternary projections *)

ProjectPoint(p) == <<2 * p[2] + p[3], p[3]>>

\* s is [single |-> TRUE, v |-> point] or [single |-> FALSE, v |-> sequence
\* of points]; mapping project_point over the numbers of a single point
\* raises TypeError, which project catches.
Project(s) ==
    IF s.single THEN ProjectPoint(s.v)
    ELSE Unzip(Map(ProjectPoint, s.v))

---------------------------------------------------------------------------
(* Boundary, gridlines, sizing *)

ResizeDrawingCanvas(ax, scale) == <<Prim(ax, "resize", <<>>, <<scale>>)>>

\* Line2D((p1[0], p2[0]), (p1[1], p2[1])): pts is <<xs, ys>> for every primitive.
DrawLine(ax, p1, p2) ==
    <<Prim(ax, "line", <<<<p1[1], p2[1]>>, <<p1[2], p2[2]>>>>, <<>>)>>

DrawHorizontalLine(ax, steps, i) ==
    DrawLine(ax, ProjectPoint(<<0, steps - i, i>>), ProjectPoint(<<steps - i, 0, i>>))

DrawLeftParallelLine(ax, steps, i) ==
    DrawLine(ax, ProjectPoint(<<0, i, steps - i>>), ProjectPoint(<<steps - i, i, 0>>))

DrawRightParallelLine(ax, steps, i) ==
    DrawLine(ax, ProjectPoint(<<i, steps - i, 0>>), ProjectPoint(<<i, 0, steps - i>>))

DrawBoundary(scale, ax0, cur) ==
    LET ax == AxOrSubplot(ax0, cur) IN
    Outcome(ResizeDrawingCanvas(ax, scale)
              \o DrawHorizontalLine(ax, scale, 0)
              \o DrawLeftParallelLine(ax, scale, 0)
              \o DrawRightParallelLine(ax, scale, 0),
            <<ax>>, "none")

GridLeftRight(ax, steps, i) ==
    DrawLeftParallelLine(ax, steps, i) \o DrawRightParallelLine(ax, steps, i)

DrawGridlines(steps, ax0, cur) ==
    LET ax == AxOrSubplot(ax0, cur)
        H(i) == DrawHorizontalLine(ax, steps, i)
        LR(i) == GridLeftRight(ax, steps, i)
    IN Outcome(ResizeDrawingCanvas(ax, steps)
                 \o Flatten(Map(H, Range(1, steps)))
                 \o Flatten(Map(LR, Range(1, steps + 1))),
               <<ax>>, "none")

---------------------------------------------------------------------------
(* Curve plotting *)

DefaultScale == 1

\* "xs, ys = project(t)" raises ValueError unless project gave two items.
Plot(t, ax0, cur) ==
    LET ax == AxOrSubplot(ax0, cur)
        xy == Project([single |-> FALSE, v |-> t])
    IN IF Len(xy) # 2
       THEN Outcome(<<>>, <<>>, "ValueError")
       ELSE Outcome(<<Prim(ax, "plot", xy, <<>>)>>, <<ax>>, "none")

RECURSIVE PlotAll(_, _, _)
PlotAll(ts, ax, cur) ==
    IF ts = <<>> THEN Outcome(<<>>, <<ax>>, "none")
    ELSE LET first == Plot(Head(ts), ax, cur) IN
         IF first.raised # "none" THEN first
         ELSE LET rest == PlotAll(Tail(ts), ax, cur) IN
              Outcome(first.prims \o rest.prims, rest.ret, rest.raised)

PlotMultiple(trajectories, ax0, cur) ==
    LET ax == AxOrSubplot(ax0, cur)
        drawn == PlotAll(trajectories, ax, cur)
    IN IF drawn.raised # "none" THEN drawn
       ELSE Outcome(drawn.prims \o DrawBoundary(DefaultScale, ax, cur).prims,
                    <<ax>>, "none")

---------------------------------------------------------------------------
(* Lattice enumeration *)

\* Inner range not narrowed when the boundary is excluded
SimplexPointsInnerTooWide(steps, boundary) ==
    LET start == IF boundary THEN 0 ELSE 1
        Row(x1) == LET P(x2) == <<x1, x2, steps - x1 - x2>>
                   IN Map(P, Range(start, steps + 1 - x1))
    IN Flatten(Map(Row, Range(start, steps + (1 - start))))

SimplexPoints(steps, boundary) ==
    LET start == IF boundary THEN 0 ELSE 1
        Row(x1) == LET P(x2) == <<x1, x2, steps - x1 - x2>>
                   IN Map(P, Range(start, steps + (1 - start) - x1))
    IN Flatten(Map(Row, Range(start, steps + (1 - start))))

---------------------------------------------------------------------------
(* Heatmaps *)

RECURSIVE GCD(_, _)
GCD(m, n) == IF n = 0 THEN m ELSE GCD(n, m % n)

Abs(n) == IF n < 0 THEN -n ELSE n

\* The rational num/den in lowest terms with a positive denominator.
Frac(num, den) ==
    LET g == GCD(Abs(num), Abs(den))
        sg == IF den < 0 THEN -1 ELSE 1
    IN <<sg * (num \div g), sg * (den \div g)>>

\* colormapper(x, a, b): the palette position whose colour is returned, as a
\* fraction.  Scalars that may be a mean of three values are passed in
\* thirds: x3 = 3 * x.
Colormapper(x3, a, b) ==
    IF b - a = 0 THEN <<0, 1>> ELSE Frac(x3 - 3 * a, 3 * (b - a))

TriangleCoordinates(i, j, alt) ==
    IF ~alt
    THEN <<<<i + 2 * j, i>>, <<i + 2 * j + 2, i>>, <<i + 2 * j + 1, i + 1>>>>
    ELSE <<<<i + 2 * j + 2, i>>, <<i + 2 * j + 3, i + 1>>, <<i + 2 * j + 1, i + 1>>>>

\* hex_coordinates(i, j, steps) of module hexagonal_heatmap: the polygon of
\* the cell, kept opaque (identified by its cell), or <<>> for "no shape".
HexCoordinates(i, j, steps) ==
    IF i < 0 \/ j < 0 \/ steps - i - j < 0 THEN <<>> ELSE <<<<i, j>>, <<steps, steps>>>>

Values(d) == {d[k] : k \in DOMAIN d}
Min(S) == CHOOSE m \in S : \A n \in S : m <= n
Max(S) == CHOOSE m \in S : \A n \in S : m >= n

\* d.items(): the keys in the order plot_heatmap inserts them.
Items(d, steps) ==
    LET Key(p) == <<p[1], p[2]>>
        Present(k) == k \in DOMAIN d
    IN SelectSeq(Map(Key, SimplexPoints(steps, TRUE)), Present)

NoScale == <<>>

\* pyplot.fill draws on the library's current surface.
PyplotFill(cur, pts, color) == <<Prim(cur, "fill", pts, color)>>

AxFill(ax, pts, color) == <<Prim(ax, "fill", pts, color)>>

Colorbar(ax, a, b) == <<Prim(ax, "colorbar", <<>>, <<a, b>>)>>

\* Smoothing with the wrong third neighbour, (i + 1, j + 1)
AltTriangleWrongNeighbour(d, i, j, a, b, cur) ==
    IF {<<i, j>>, <<i, j + 1>>, <<i + 1, j + 1>>} \subseteq DOMAIN d
    THEN PyplotFill(cur, Unzip(TriangleCoordinates(i, j, TRUE)),
                    Colormapper(d[<<i, j>>] + d[<<i, j + 1>>] + d[<<i + 1, j + 1>>], a, b))
    ELSE <<>>

\* One pass of the smoothing loop body: the try block and its KeyError handler.
AltTriangle(d, i, j, a, b, cur) ==
    IF {<<i, j>>, <<i, j + 1>>, <<i + 1, j>>} \subseteq DOMAIN d
    THEN PyplotFill(cur, Unzip(TriangleCoordinates(i, j, TRUE)),
                    Colormapper(d[<<i, j>>] + d[<<i, j + 1>>] + d[<<i + 1, j>>], a, b))
    ELSE <<>>

HeatmapTriangular(d, steps, boundary, ax0, cur) ==
    LET ax == AxOrSubplot(ax0, cur) IN
    IF DOMAIN d = {} THEN Outcome(<<>>, <<>>, "ValueError")
    ELSE
    LET a == Min(Values(d))
        b == Max(Values(d))
        Cell(k) == AxFill(ax, Unzip(TriangleCoordinates(k[1], k[2], FALSE)),
                          Colormapper(3 * d[k], a, b))
        offset == IF boundary THEN 0 ELSE 1
        AltRow(i) == LET Alt(j) == AltTriangle(d, i, j, a, b, cur)
                     IN Flatten(Map(Alt, Range(offset, steps - i - offset)))
    IN Outcome(Flatten(Map(Cell, Items(d, steps)))
                 \o Flatten(Map(AltRow, Range(offset, steps + 1 - offset)))
                 \o Colorbar(ax, a, b),
               <<ax>>, "none")

HeatmapHexagonal(d, steps, ax0, min_max_scale, cur) ==
    LET ax == AxOrSubplot(ax0, cur) IN
    IF min_max_scale = NoScale /\ DOMAIN d = {} THEN Outcome(<<>>, <<>>, "ValueError")
    ELSE
    LET a == IF min_max_scale = NoScale THEN Min(Values(d)) ELSE min_max_scale[1]
        b == IF min_max_scale = NoScale THEN Max(Values(d)) ELSE min_max_scale[2]
        Cell(k) == LET vertices == HexCoordinates(k[1], k[2], steps) IN
                   IF vertices # <<>>
                   THEN AxFill(ax, Unzip(vertices), Colormapper(3 * d[k], a, b))
                   ELSE <<>>
    IN Outcome(Flatten(Map(Cell, Items(d, steps))) \o Colorbar(ax, a, b),
               <<ax>>, "none")

---------------------------------------------------------------------------
(* Style dispatch *)

Uppers == <<"A", "B", "C", "D", "E", "F", "G", "H", "I", "J", "K", "L", "M",
            "N", "O", "P", "Q", "R", "S", "T", "U", "V", "W", "X", "Y", "Z">>
Lowers == <<"a", "b", "c", "d", "e", "f", "g", "h", "i", "j", "k", "l", "m",
            "n", "o", "p", "q", "r", "s", "t", "u", "v", "w", "x", "y", "z">>

LowerChar(c) ==
    IF \E k \in 1..Len(Uppers) : Uppers[k] = c
    THEN Lowers[CHOOSE k \in 1..Len(Uppers) : Uppers[k] = c]
    ELSE c

\* Case-sensitive matching: the style is not lowered
LowerOmitted(s) == s

\* str.lower() on a string held as its sequence of characters
Lower(s) == Map(LowerChar, s)

\* str.startswith
StartsWith(s, prefix) ==
    Len(s) >= Len(prefix) /\ SubSeq(s, 1, Len(prefix)) = prefix

\* style=None, told apart from every character sequence
NoneStyle == <<"None">>
Triangular == <<"t", "r", "i", "a", "n", "g", "u", "l", "a", "r">>

Get(kw, key, default) == IF key \in DOMAIN kw THEN kw[key] ELSE default

Without(kw, key) == [k \in DOMAIN kw \ {key} |-> kw[k]]

\* heatmap_triangular(*args, **kwargs): a keyword that is no parameter of
\* the function raises TypeError before its body runs.
CallTriangular(d, steps, kw, cur) ==
    IF ~(DOMAIN kw \subseteq {"cmap_name", "boundary", "ax", "scientific"})
    THEN Outcome(<<>>, <<>>, "TypeError")
    ELSE HeatmapTriangular(d, steps, Get(kw, "boundary", TRUE), Get(kw, "ax", NoAx), cur)

CallHexagonal(d, steps, kw, cur) ==
    IF ~(DOMAIN kw \subseteq {"cmap_name", "boundary", "ax", "scientific", "min_max_scale"})
    THEN Outcome(<<>>, <<>>, "TypeError")
    ELSE HeatmapHexagonal(d, steps, Get(kw, "ax", NoAx),
                          Get(kw, "min_max_scale", NoScale), cur)

\* The renderer that style.lower() selects: "tri", "hex" or "none".
Dispatch(style) ==
    LET s == Lower(style) IN
    IF StartsWith(s, <<"t", "r", "i">>) THEN "tri"
    ELSE IF StartsWith(s, <<"h", "e", "x">>) THEN "hex"
    ELSE "none"

\* The try / except / finally that reads and removes kwargs['style']:
\* "del kwargs['style']" in the finally clause raises KeyError when the
\* caller passed no style.
StyleOf(kw) ==
    IF "style" \notin DOMAIN kw THEN [raised |-> "KeyError", style |-> Triangular]
    ELSE [raised |-> "none",
          style |-> IF kw["style"] = NoneStyle THEN Triangular ELSE kw["style"]]

Heatmap(d, steps, kw, cur) ==
    LET st == StyleOf(kw) IN
    IF st.raised # "none" THEN Outcome(<<>>, <<>>, st.raised)
    ELSE LET rest == Without(kw, "style")
             to == Dispatch(st.style)
         IN IF to = "tri" THEN CallTriangular(d, steps, rest, cur)
            ELSE IF to = "hex" THEN CallHexagonal(d, steps, rest, cur)
            ELSE Outcome(<<>>, <<>>, "none")

---------------------------------------------------------------------------
(* Convenience functions *)

\* normalize(xs): each x / s as the fraction <<x, s>>; s = 0 divides by zero.
Normalize(xs) == [k \in 1..Len(xs) |-> <<xs[k], xs[1] + xs[2] + xs[3]>>]

\* The caller's function, one of a family indexed by two weights:
\* func(p) = w[1] * floor(2 * p[0]) + w[2] * floor(2 * p[1]).
Func(w, p) == w[1] * ((2 * p[1][1]) \div p[1][2]) + w[2] * ((2 * p[2][1]) \div p[2][2])

PlotHeatmap(w, steps, boundary, ax, style, cur) ==
    LET pts == SimplexPoints(steps, boundary)
        keys == {<<pts[n][1], pts[n][2]>> : n \in 1..Len(pts)}
    IN IF \E n \in 1..Len(pts) : pts[n][1] + pts[n][2] + pts[n][3] = 0
       THEN Outcome(<<>>, <<>>, "ZeroDivisionError")
       ELSE LET d == [k \in keys |-> Func(w, Normalize(<<k[1], k[2], steps - k[1] - k[2]>>))]
            IN Heatmap(d, steps, [k \in {"cmap_name", "ax", "style"} |->
                                     IF k = "ax" THEN ax
                                     ELSE IF k = "style" THEN style ELSE "None"], cur)

---------------------------------------------------------------------------
(* Enumerated inputs *)

SeqsUpTo(S, n) == UNION {[1..k -> S] : k \in 0..n}

\* Points of a trajectory: x + y + z = steps, steps = 1. by default.
TrajPoints ==
    {p \in (0..DefaultScale) \X (0..DefaultScale) \X (0..DefaultScale) :
        p[1] + p[2] + p[3] = DefaultScale}

Trajectories == SeqsUpTo(TrajPoints, MaxLen)

\* Lattice indices (i, j) with i + j <= steps
Lattice(steps) == {k \in (0..steps) \X (0..steps) : k[1] + k[2] <= steps}

Weights == (0..MaxCoef) \X (0..MaxCoef)

ValueMap(dom, w) == [k \in dom |-> w[1] * k[1] + w[2] * k[2]]

\* Value maps: any set of lattice keys, valued w[1] * i + w[2] * j.
ValueMaps(steps) ==
    {ValueMap(dom, w) : dom \in SUBSET Lattice(steps), w \in Weights}

\* The empty map and the maps that cover the whole lattice
FullMaps(steps) ==
    {ValueMap(dom, w) : dom \in {{}, Lattice(steps)}, w \in Weights}

Scales == {NoScale, <<0, 0>>, <<1, 1 + 2 * MaxCoef>>}

Styles ==
    { Triangular,
      <<"t", "r", "i">>,
      <<"T", "R", "I">>,
      <<"T", "r", "i", "a", "n", "g", "l", "e">>,
      <<"h", "e", "x", "a", "g", "o", "n", "a", "l">>,
      <<"H", "E", "X">>,
      <<"h", "E", "x">>,
      <<"t", "r">>,
      <<"h", "e">>,
      <<>>,
      <<"x", "h", "e", "x">>,
      <<"s", "q", "u", "a", "r", "e">> }

StyleArgs == Styles \cup {NoneStyle}

KwKeys == {"style", "ax", "boundary", "min_max_scale"}

\* The keyword dictionary that gives the keywords of `given` these values
Kwargs(given, style, ax, boundary, scale) ==
    [k \in given |-> CASE k = "style" -> style
                       [] k = "ax" -> ax
                       [] k = "boundary" -> boundary
                       [] k = "min_max_scale" -> scale]

---------------------------------------------------------------------------
(* The calls *)

Idle == [op |-> "idle"]

Init ==
    /\ current \in Surfaces
    /\ call = Idle
    /\ prims = <<>>
    /\ ret = <<>>
    /\ raised = "none"

Finish(c, out) ==
    /\ call' = c
    /\ prims' = out.prims
    /\ ret' = out.ret
    /\ raised' = out.raised
    /\ UNCHANGED current

SimplexPointsCall ==
    /\ call = Idle
    /\ \E steps \in 0..MaxSteps, boundary \in BOOLEAN :
        Finish([op |-> "simplex_points", steps |-> steps, boundary |-> boundary],
               Outcome(<<>>, SimplexPoints(steps, boundary), "none"))

ProjectPointCall ==
    /\ call = Idle
    /\ \E p \in (0..MaxSteps) \X (0..MaxSteps) \X (0..MaxSteps) :
        Finish([op |-> "project_point", p |-> p],
               Outcome(<<>>, Project([single |-> TRUE, v |-> p]), "none"))

ProjectCall ==
    /\ call = Idle
    /\ \E s \in Trajectories :
        Finish([op |-> "project", s |-> s],
               Outcome(<<>>, Project([single |-> FALSE, v |-> s]), "none"))

DrawBoundaryCall ==
    /\ call = Idle
    /\ \E scale \in 1..MaxSteps, ax \in AxArgs :
        Finish([op |-> "draw_boundary", scale |-> scale, ax |-> ax],
               DrawBoundary(scale, ax, current))

DrawGridlinesCall ==
    /\ call = Idle
    /\ \E steps \in 0..MaxSteps, ax \in AxArgs :
        Finish([op |-> "draw_gridlines", steps |-> steps, ax |-> ax],
               DrawGridlines(steps, ax, current))

PlotCall ==
    /\ call = Idle
    /\ \E t \in Trajectories, ax \in AxArgs :
        Finish([op |-> "plot", t |-> t, ax |-> ax], Plot(t, ax, current))

PlotMultipleCall ==
    /\ call = Idle
    /\ \E ts \in SeqsUpTo(Trajectories, MaxTraj), ax \in AxArgs :
        Finish([op |-> "plot_multiple", trajectories |-> ts, ax |-> ax],
               PlotMultiple(ts, ax, current))

HeatmapTriangularCall ==
    /\ call = Idle
    /\ \E steps \in 0..MaxHeatSteps, boundary \in BOOLEAN, ax \in AxArgs :
      \E d \in ValueMaps(steps) :
        Finish([op |-> "heatmap_triangular", d |-> d, steps |-> steps,
                boundary |-> boundary, ax |-> ax],
               HeatmapTriangular(d, steps, boundary, ax, current))

HeatmapHexagonalCall ==
    /\ call = Idle
    /\ \E steps \in 0..MaxHeatSteps, ax \in AxArgs, scale \in Scales :
      \E d \in ValueMaps(steps) :
        Finish([op |-> "heatmap_hexagonal", d |-> d, steps |-> steps,
                ax |-> ax, min_max_scale |-> scale],
               HeatmapHexagonal(d, steps, ax, scale, current))

HeatmapCall ==
    /\ call = Idle
    /\ \E steps \in 0..MaxHeatSteps, given \in SUBSET KwKeys, style \in StyleArgs,
       ax \in AxArgs, boundary \in BOOLEAN, scale \in Scales \ {NoScale} :
      \E d \in FullMaps(steps) :
        LET kw == Kwargs(given, style, ax, boundary, scale) IN
        Finish([op |-> "heatmap", d |-> d, steps |-> steps, kwargs |-> kw],
               Heatmap(d, steps, kw, current))

PlotHeatmapCall ==
    /\ call = Idle
    /\ \E w \in Weights, steps \in 0..MaxHeatSteps, boundary \in BOOLEAN,
       ax \in AxArgs, style \in StyleArgs :
        Finish([op |-> "plot_heatmap", func |-> w, steps |-> steps,
                boundary |-> boundary, ax |-> ax, style |-> style],
               PlotHeatmap(w, steps, boundary, ax, style, current))

Next ==
    \/ SimplexPointsCall
    \/ ProjectPointCall
    \/ ProjectCall
    \/ DrawBoundaryCall
    \/ DrawGridlinesCall
    \/ PlotCall
    \/ PlotMultipleCall
    \/ HeatmapTriangularCall
    \/ HeatmapHexagonalCall
    \/ HeatmapCall
    \/ PlotHeatmapCall

Spec == Init /\ [][Next]_vars

---------------------------------------------------------------------------
(* Properties *)

PrimIndices == 1..Len(prims)

\* The surface a call draws on: the one supplied, or the one created.
Target == AxOrSubplot(call.ax, current)

\* The position num/den of a colour is that of x3/3 on the scale [a, b].
IsColourOf(colour, x3, a, b) ==
    IF b = a THEN colour = <<0, 1>>
    ELSE colour[2] # 0 /\ colour[1] * 3 * (b - a) = colour[2] * (x3 - 3 * a)

----
\* C1: simplex_points(steps, boundary) yields exactly the integer triples
\* with sum steps whose components are all >= 0 (boundary included) or all
\* >= 1 (boundary excluded), each exactly once, in lexicographic order of
\* (i1, i2).
SimplexTriples(steps, boundary) ==
    LET lo == IF boundary THEN 0 ELSE 1 IN
    {t \in (0..steps) \X (0..steps) \X (0..steps) :
        /\ t[1] + t[2] + t[3] = steps
        /\ t[1] >= lo /\ t[2] >= lo /\ t[3] >= lo}

LexLess(p, q) == p[1] < q[1] \/ (p[1] = q[1] /\ p[2] < q[2])

C1_SimplexPointsEnumeration ==
    call.op = "simplex_points" =>
        /\ {ret[n] : n \in 1..Len(ret)} = SimplexTriples(call.steps, call.boundary)
        /\ \A n \in 1..(Len(ret) - 1) : LexLess(ret[n], ret[n + 1])

C1_Witness ==
    /\ call.op = "simplex_points"
    /\ call.steps = 3
    /\ ~call.boundary
    /\ ret = <<<<1, 1, 1>>>>

----
\* C2: heatmap called with no style keyword, or with style=None, renders
\* through the triangular path and returns its surface without raising
\* (for a non-empty value map and keywords the triangular renderer takes).
C2_DefaultStyleTriangular ==
    ( /\ call.op = "heatmap"
      /\ DOMAIN call.d # {}
      /\ "min_max_scale" \notin DOMAIN call.kwargs
      /\ ("style" \in DOMAIN call.kwargs => call.kwargs["style"] = NoneStyle) )
    => LET want == CallTriangular(call.d, call.steps,
                                  Without(call.kwargs, "style"), current)
       IN /\ raised = "none"
          /\ prims = want.prims
          /\ ret = want.ret
          /\ ret # <<>>

----
\* C3: for a style string, dispatch is by case-insensitive prefix: "tri"
\* runs the triangular renderer, "hex" the hexagonal renderer, and any
\* other string draws nothing, returns nothing and does not raise.
HasPrefixAnyCase(s, c1, c2, c3) ==
    /\ Len(s) >= 3
    /\ s[1] \in c1
    /\ s[2] \in c2
    /\ s[3] \in c3

IsTriStyle(s) == HasPrefixAnyCase(s, {"t", "T"}, {"r", "R"}, {"i", "I"})
IsHexStyle(s) == HasPrefixAnyCase(s, {"h", "H"}, {"e", "E"}, {"x", "X"})

C3_StyleDispatch ==
    ( /\ call.op = "heatmap"
      /\ "style" \in DOMAIN call.kwargs
      /\ call.kwargs["style"] # NoneStyle )
    => LET style == call.kwargs["style"]
           rest == Without(call.kwargs, "style")
           want == IF IsTriStyle(style)
                   THEN CallTriangular(call.d, call.steps, rest, current)
                   ELSE IF IsHexStyle(style)
                   THEN CallHexagonal(call.d, call.steps, rest, current)
                   ELSE Outcome(<<>>, <<>>, "none")
       IN prims = want.prims /\ ret = want.ret /\ raised = want.raised

C3_Witness ==
    /\ call.op = "heatmap"
    /\ "style" \in DOMAIN call.kwargs
    /\ call.kwargs["style"] = <<"H", "E", "X">>
    /\ raised = "none"
    /\ \E n \in PrimIndices :
          /\ prims[n].kind = "fill"
          /\ prims[n].pts = Unzip(HexCoordinates(0, 0, call.steps))

----
\* C4: in both heatmap styles the colour-scale range that colours every cell
\* and spans the legend is the explicit override when the caller gives one,
\* and otherwise the minimum and maximum of the values in the map.
UsesRange(a, b) ==
    /\ raised = "none"
    /\ \E n \in PrimIndices : prims[n].kind = "colorbar" /\ prims[n].arg = <<a, b>>
    /\ \A k \in DOMAIN call.d :
          \E n \in PrimIndices :
              /\ prims[n].kind = "fill"
              /\ IsColourOf(prims[n].arg, 3 * call.d[k], a, b)

C4_RangeOverrideBothStyles ==
    /\ ( call.op = "heatmap_hexagonal" /\ call.min_max_scale # NoScale )
          => UsesRange(call.min_max_scale[1], call.min_max_scale[2])
    /\ ( call.op \in {"heatmap_hexagonal", "heatmap_triangular"}
         /\ (call.op = "heatmap_hexagonal" => call.min_max_scale = NoScale)
         /\ DOMAIN call.d # {} )
          => UsesRange(Min(Values(call.d)), Max(Values(call.d)))
    /\ ( call.op = "heatmap"
         /\ "style" \in DOMAIN call.kwargs
         /\ call.kwargs["style"] # NoneStyle
         /\ (IsTriStyle(call.kwargs["style"]) \/ IsHexStyle(call.kwargs["style"]))
         /\ "min_max_scale" \in DOMAIN call.kwargs
         /\ DOMAIN call.d # {} )
          => UsesRange(call.kwargs["min_max_scale"][1], call.kwargs["min_max_scale"][2])

----
\* C5: heatmap_triangular with the default boundary setting fills the alt
\* triangle of cell (i, j) exactly when (i, j), (i, j+1) and (i+1, j) all
\* have values, colours it with the mapped mean of the three, and skips a
\* triangle with a missing neighbour without raising; so the number of alt
\* triangles filled is the number of cells with all three neighbours present.
AltPts(i, j) ==
    <<<<i + 2 * j + 2, i + 2 * j + 3, i + 2 * j + 1>>, <<i, i + 1, i + 1>>>>

HasNeighbours(d, k) ==
    {k, <<k[1], k[2] + 1>>, <<k[1] + 1, k[2]>>} \subseteq DOMAIN d

\* An inverted triangle: one vertex below, two above.
IsAltFill(p) == p.kind = "fill" /\ p.pts[2][2] = p.pts[2][1] + 1

C5_AltTriangles ==
    ( call.op = "heatmap_triangular" /\ call.boundary )
    => LET d == call.d
           filled(k) == {n \in PrimIndices :
                           prims[n].kind = "fill" /\ prims[n].pts = AltPts(k[1], k[2])}
       IN /\ raised # "KeyError"
          /\ DOMAIN d # {} => raised = "none"
          /\ \A k \in Lattice(call.steps) :
                /\ HasNeighbours(d, k) <=> filled(k) # {}
                /\ Cardinality(filled(k)) <= 1
                /\ \A n \in filled(k) :
                      IsColourOf(prims[n].arg,
                                 d[k] + d[<<k[1], k[2] + 1>>] + d[<<k[1] + 1, k[2]>>],
                                 Min(Values(d)), Max(Values(d)))
          /\ Cardinality({n \in PrimIndices : IsAltFill(prims[n])})
               = Cardinality({k \in Lattice(call.steps) : HasNeighbours(d, k)})

C5_Witness ==
    /\ call.op = "heatmap_triangular"
    /\ call.boundary
    /\ raised = "none"
    /\ \E n \in PrimIndices : IsAltFill(prims[n]) /\ prims[n].arg = <<1, 3>>
    /\ \E k \in DOMAIN call.d :
          k[1] + k[2] < call.steps /\ ~HasNeighbours(call.d, k)

----
\* C6: project_point is linear with x = b + c/2 and y = c * sqrt(3)/2, maps
\* the simplex corners to the corners of an equilateral triangle of side N,
\* and project applied to a sequence returns the x values and the y values
\* as two parallel sequences in input order.
C6_Projection ==
    /\ call.op = "project_point"
          => /\ ret = <<2 * call.p[2] + call.p[3], call.p[3]>>
             /\ call.p[2] = 0 /\ call.p[3] = 0 => ret = <<0, 0>>
             /\ call.p[1] = 0 /\ call.p[3] = 0 => ret = <<2 * call.p[2], 0>>
             /\ call.p[1] = 0 /\ call.p[2] = 0 => ret = <<call.p[3], call.p[3]>>
    /\ call.op = "project"
          => /\ Len(ret) = 2
             /\ Len(ret[1]) = Len(call.s)
             /\ Len(ret[2]) = Len(call.s)
             /\ \A n \in 1..Len(call.s) :
                   /\ ret[1][n] = 2 * call.s[n][2] + call.s[n][3]
                   /\ ret[2][n] = call.s[n][3]

----
\* C7: plot_multiple draws every trajectory as one polyline, in the order
\* given and with each trajectory's points in input order, then overlays the
\* boundary exactly once (one resize, then exactly three lines), all on the
\* same surface, which it returns.
C7_PlotMultiple ==
    call.op = "plot_multiple"
    => LET ts == call.trajectories
           m == Len(ts)
       IN /\ raised = "none"
          /\ ret = <<Target>>
          /\ Len(prims) = m + 4
          /\ \A n \in PrimIndices : prims[n].ax = Target
          /\ \A n \in 1..m :
                /\ prims[n].kind = "plot"
                /\ Len(prims[n].pts) = 2
                /\ Len(prims[n].pts[1]) = Len(ts[n])
                /\ \A q \in 1..Len(ts[n]) :
                      <<prims[n].pts[1][q], prims[n].pts[2][q]>>
                        = <<2 * ts[n][q][2] + ts[n][q][3], ts[n][q][3]>>
          /\ prims[m + 1].kind = "resize"
          /\ \A n \in (m + 2)..(m + 4) : prims[n].kind = "line"

----
\* C8: for steps >= 1 every segment draw_gridlines adds is an internal line:
\* two distinct endpoints, not on any of the three boundary edges; and the
\* surface is resized before the first segment is added.
EndPoint(p, n) == <<p.pts[1][n], p.pts[2][n]>>

\* Stored as <<2x, y / SQRT3OVER2>>, the edges of the simplex of side
\* `steps` are y = 0, 2x = y and 2x + y = 2 * steps.
OnEdge(p, steps) ==
    \/ \A n \in 1..2 : EndPoint(p, n)[2] = 0
    \/ \A n \in 1..2 : EndPoint(p, n)[1] = EndPoint(p, n)[2]
    \/ \A n \in 1..2 : EndPoint(p, n)[1] + EndPoint(p, n)[2] = 2 * steps

C8_GridlinesInternal ==
    ( call.op = "draw_gridlines" /\ call.steps >= 1 )
    => /\ prims[1].kind = "resize"
       /\ \A n \in 2..Len(prims) :
             /\ prims[n].kind = "line"
             /\ EndPoint(prims[n], 1) # EndPoint(prims[n], 2)
             /\ ~OnEdge(prims[n], call.steps)

----
\* C9: every fill primitive of one heatmap_triangular call, upright or alt,
\* is issued against the surface the caller supplied (or the one created
\* when none was supplied), which is also the surface returned.
C9_OneSurface ==
    call.op = "heatmap_triangular"
    => /\ \A n \in PrimIndices : prims[n].ax = Target
       /\ raised = "none" => ret = <<Target>>

----
\* C10: for every lattice point (x1, x2, x3) that plot_heatmap enumerates
\* and evaluates, the upright triangle filled for its key (x1, x2) has its
\* first vertex equal to project_point((x1, x2, x3)).
C10_CellsAtProjectedPoints ==
    ( /\ call.op = "plot_heatmap"
      /\ call.style # NoneStyle => IsTriStyle(call.style)
      /\ raised = "none" )
    => LET pts == SimplexPoints(call.steps, call.boundary) IN
       \A n \in 1..Len(pts) :
          /\ prims[n].kind = "fill"
          /\ prims[n].pts = Unzip(TriangleCoordinates(pts[n][1], pts[n][2], FALSE))
          /\ <<prims[n].pts[1][1], prims[n].pts[2][1]>> = ProjectPoint(pts[n])

====
